---- MODULE Spec2Model ----
(***************************************************************************)
(* Model of the I/O operation lifecycle of folo:                           *)
(*   crates/folo/src/io/operation.rs   (OperationStore, OperationCore,     *)
(*                                      Operation)                        *)
(* The store, the operation cores, the handles, the oneshot channel that   *)
(* carries each result, the operating system's ownership of submitted      *)
(* cores and the awaiting futures are the state; every method is an action.*)
(***************************************************************************)
EXTENDS Integers, Sequences, FiniteSets, TLC

(***************************************************************************)
(* Bounds of the model.                                                    *)
(***************************************************************************)
MaxOps == 2          \* operations created over a run (calls of new_operation)

Ops == 1..MaxOps
Keys == 0..(MaxOps - 1)     \* slots of the slab chain; it never runs out

(***************************************************************************)
(* Machine integers.  A usize is four 16-bit limbs, most significant       *)
(* first; a u32 is the two low limbs.  (2^32 - 1 is not an integer TLC     *)
(* can hold, so the widths are kept by the limbs.)                         *)
(***************************************************************************)
LimbBase == 2 ^ 16
LimbMax == LimbBase - 1

USize(n) == <<0, 0, 0, n>>          \* a small number as usize
U32(n) == <<0, n>>                  \* a small number as u32

\* `x as usize` for x: u32 (widening)
U32AsUSize(x) == <<0, 0, x[1], x[2]>>

\* u32::MAX as usize
U32_MAX == <<0, 0, LimbMax, LimbMax>>

RECURSIVE LimbsLess(_, _)
LimbsLess(a, b) ==
    IF a = <<>> THEN FALSE
    ELSE IF Head(a) # Head(b) THEN Head(a) < Head(b)
    ELSE LimbsLess(Tail(a), Tail(b))

\* a <= b and a > b on usize
USizeLe(a, b) == a = b \/ LimbsLess(a, b)
USizeGt(a, b) == LimbsLess(b, a)

\* `x as u32` for x: usize (the low 32 bits)
USizeAsU32(x) == <<x[3], x[4]>>

\* `x >> 32` for x: usize
USizeShr32(x) == <<0, 0, x[1], x[2]>>

(***************************************************************************)
(* Option<T>: None is the empty sequence, Some(x) the one-element one.     *)
(***************************************************************************)
None == <<>>
Some(x) == <<x>>
IsSome(opt) == opt # <<>>
Unwrap(opt) == opt[1]

(***************************************************************************)
(* PinnedBuffer: backing memory (id), capacity and active length.          *)
(***************************************************************************)
\* `supplied` remembers the active length the caller created the buffer
\* with; no handler reads it.
Buffer(id, capacity, len) ==
    [id |-> id, capacity |-> capacity, len |-> len, supplied |-> len]

\* PinnedBuffer::len: the active length
BufferLen(buffer) == buffer.len

\* PinnedBuffer::set_len: sets the active length
BufferSetLen(buffer, value) == [buffer EXCEPT !.len = value]

\* The buffers callers hand to new_operation: <<capacity, active length>>.
BufferShapes ==
    { <<USize(32), USize(32)>>,
      <<USize(64), USize(64)>>,
      <<USize(128), USize(128)>>,
      <<USize(64), USize(32)>> }

\* Byte counts a closure writes into the immediate-bytes cell (u32).
ImmediateByteCounts == { U32(0), U32(40), U32(64) }

(***************************************************************************)
(* Status and error values.                                                *)
(***************************************************************************)
ERROR_IO_PENDING == 997
SOCKET_ERROR == -1
WSA_IO_PENDING == 997
STATUS_SUCCESS == 0

\* i32::MIN, written without a numeral TLC cannot hold
I32Min == (-2147483647) - 1

\* HRESULT of a Win32 error code (ERROR_IO_PENDING.into())
HResultFromWin32(error) ==
    IF error <= 0 THEN error ELSE I32Min + 7 * LimbBase + (error % LimbBase)

\* HRESULT of an NTSTATUS (status.into()): negative statuses get the NT
\* facility bit (bit 28) set
HResultFromNt(status) ==
    IF status >= 0 THEN status
    ELSE IF ((status - I32Min) \div (2 ^ 28)) % 2 = 1 THEN status
    ELSE status + 2 ^ 28

\* io::Error
WindowsError(code) == [kind |-> "Windows", code |-> code, detail |-> 0]
WinsockError(code, detail) == [kind |-> "Winsock", code |-> code, detail |-> detail]

\* What a submission closure can return: Ok(()) or Err(io::Error).
ClosureOk == [ok |-> TRUE, error |-> WindowsError(0)]
ClosureErr(e) == [ok |-> FALSE, error |-> e]

PendingWindows == WindowsError(HResultFromWin32(ERROR_IO_PENDING))
PendingWinsock == WinsockError(SOCKET_ERROR, WSA_IO_PENDING)
\* ERROR_ACCESS_DENIED and WSAECONNRESET: the OS refused the call
RejectionErrors == { WindowsError(HResultFromWin32(5)),
                     WinsockError(SOCKET_ERROR, 10054) }

ClosureResults ==
    {ClosureOk} \cup { ClosureErr(e) : e \in {PendingWindows, PendingWinsock} \cup RejectionErrors }

\* NTSTATUS values of a completion record: success, a positive status that
\* is not success (STATUS_PENDING), a failure (STATUS_CONNECTION_DISCONNECTED)
Statuses == { STATUS_SUCCESS, 259, -1073741300 }

\* The completion records the poller delivers:
\* <<dwNumberOfBytesTransferred (u32), Internal as i32>>
CompletionRecords ==
    { <<U32(0), STATUS_SUCCESS>>, <<U32(40), STATUS_SUCCESS>>,
      <<U32(40), 259>>, <<U32(0), -1073741300>> }

\* The three outcomes of a submission, as the closure contract names them
ClosureKind(r) ==
    IF r.ok THEN "ok"
    ELSE IF r.error \in {PendingWindows, PendingWinsock} THEN "pending"
    ELSE "rejected"

\* What is remembered of a closure call: the outcome, the byte count it
\* wrote, and the error of a rejection
ClosureRecord(r, bytes) ==
    [kind |-> ClosureKind(r), bytes |-> bytes,
     error |-> IF ClosureKind(r) = "rejected" THEN r.error ELSE WindowsError(0)]

\* io::OperationResult
ResultOk(buffer) == [kind |-> "Ok", error |-> WindowsError(0), buffer |-> buffer]
ResultErr(e, buffer) == [kind |-> "Err", error |-> e, buffer |-> buffer]

(***************************************************************************)
(* State.                                                                  *)
(***************************************************************************)
VARIABLES
    items,       \* OperationStore.items: key -> Option<OperationCore>
    chan,        \* the oneshot channel of each operation
    osOwned,     \* keys of the cores whose OVERLAPPED pointer the OS holds
    panic,       \* "none", or the message of the panic that ended the agent
    pc,          \* where each operation's caller is
    handle,      \* Operation.core of each live handle: the key of its core
    observed,    \* the results each operation's awaiter got from begin
    closure,     \* what each operation's closure returned (None before the call)
    completion,  \* the completion record the poller delivered for each operation
    requested_offset, \* the offset last passed to set_offset for each operation
    event_flavor,   \* the storage flavor the once-event was created in
    event_state,    \* OnceEvent.state
    event_sender,   \* what became of the sender: "live", "used", "dropped"
    event_receiver, \* what became of the receiver: "live", "dropped"
    ref_count,      \* reference count of the once-event's storage
    woken,          \* how often each waker was woken
    calls           \* the set and poll calls made so far, with their outcomes

opvars == <<items, chan, osOwned, panic, pc, handle, observed, closure, completion,
            requested_offset>>
evars == <<event_flavor, event_state, event_sender, event_receiver, ref_count,
           woken, calls>>
vars == <<opvars, evars>>

(***************************************************************************)
(* oneshot channel: the message slot, what became of each end, and whether *)
(* the receiver has left a waker.                                          *)
(*   sender:   "live", "sent" (send stored the message), "failed" (send    *)
(*             found the receiver gone), "dropped" (dropped unused)        *)
(*   receiver: "live", "received" (it yielded the message), "dropped"      *)
(***************************************************************************)
NewChannel ==
    [message |-> None, sender |-> "live", receiver |-> "live", waker |-> FALSE]

\* Sender::send: the message is stored unless the receiver is gone (then
\* send returns Err and the caller discards it); the sender is consumed.
ChannelSend(c, value) ==
    IF c.receiver # "live"
    THEN [c EXCEPT !.sender = "failed"]
    ELSE [c EXCEPT !.message = Some(value), !.sender = "sent", !.waker = FALSE]

\* Sender dropped without a send
ChannelDropSender(c) == [c EXCEPT !.sender = "dropped", !.waker = FALSE]

\* Receiver dropped; a message nobody took is dropped with it
ChannelDropReceiver(c) ==
    [c EXCEPT !.receiver = "dropped", !.message = None, !.waker = FALSE]

\* The receiver yields the message and is consumed
ChannelReceive(c) ==
    [c EXCEPT !.receiver = "received", !.message = None, !.waker = FALSE]

\* Receiver::poll: "Ready" with the message, "Closed" (RecvError) when the
\* sender is gone without a message, else "Pending"
ChannelPoll(c) ==
    IF IsSome(c.message) THEN "Ready"
    ELSE IF c.sender # "live" THEN "Closed"
    ELSE "Pending"

(***************************************************************************)
(* OperationCore.  result_tx / result_rx hold the ends of the channel of   *)
(* operation `op`.                                                         *)
(***************************************************************************)
\* (the clamp left out)
OperationCore_new_unclamped(key, buffer, op) ==
    [ overlapped |-> [Offset |-> U32(0), OffsetHigh |-> U32(0)],
      buffer |-> Some(buffer),
      key |-> key,
      immediate_bytes_transferred |-> U32(0),
      result_tx |-> Some(op),
      result_rx |-> Some(op),
      started |-> FALSE ]

\* (every core told that it sits at key 0)
OperationCore_new_key_zero(key, buffer, op) ==
    [ overlapped |-> [Offset |-> U32(0), OffsetHigh |-> U32(0)],
      buffer |-> Some(IF USizeGt(BufferLen(buffer), U32_MAX)
                      THEN BufferSetLen(buffer, U32_MAX)
                      ELSE buffer),
      key |-> 0,
      immediate_bytes_transferred |-> U32(0),
      result_tx |-> Some(op),
      result_rx |-> Some(op),
      started |-> FALSE ]

OperationCore_new(key, buffer, op) ==
    [ overlapped |-> [Offset |-> U32(0), OffsetHigh |-> U32(0)],
      buffer |-> Some(IF USizeGt(BufferLen(buffer), U32_MAX)
                      THEN BufferSetLen(buffer, U32_MAX)
                      ELSE buffer),
      key |-> key,
      immediate_bytes_transferred |-> U32(0),
      result_tx |-> Some(op),
      result_rx |-> Some(op),
      started |-> FALSE ]

\* Operation::set_offset: the two halves of the OVERLAPPED offset
set_offset_low_only(core, offset) ==
    [core EXCEPT !.overlapped.Offset = USizeAsU32(offset)]

set_offset(core, offset) ==
    [core EXCEPT !.overlapped =
        [Offset |-> USizeAsU32(offset),
         OffsetHigh |-> USizeAsU32(USizeShr32(offset))]]

\* Dropping a core drops the channel ends it still holds.
ChanAfterCoreDrop(ch, core) ==
    LET c1 == IF IsSome(core.result_tx)
              THEN [ch EXCEPT ![Unwrap(core.result_tx)] = ChannelDropSender(@)]
              ELSE ch
    IN  IF IsSome(core.result_rx)
        THEN [c1 EXCEPT ![Unwrap(core.result_rx)] = ChannelDropReceiver(@)]
        ELSE c1

(***************************************************************************)
(* The handlers work on a world: the store, the channels and the panic.    *)
(***************************************************************************)
World == [items |-> items, chan |-> chan, panic |-> panic]

Panic(w, message) == [w EXCEPT !.panic = message]

\* OperationStore::is_empty
is_empty(its) == \A k \in DOMAIN its : its[k] = None

\* OperationStore::release: removes the core from the slab, dropping it
release_keeps(w, key) == w

release(w, key) ==
    IF w.items[key] = None
    THEN Panic(w, "release: vacant key")
    ELSE [w EXCEPT !.items[key] = None,
                   !.chan = ChanAfterCoreDrop(w.chan, Unwrap(w.items[key]))]

\* Drop for Operation: `self.control.release(self.core.key)`
drop_forgets(w, core) == w

drop(w, core) == release(w, core.key)

\* into_callback_arguments: the handle is taken apart without running its
\* destructor; what is left of Operation.core afterwards
shattered_keeps_core(core_ref) == core_ref

shattered(core_ref) == None

\* `_ = result_tx.send(result)`: the result goes into the channel of the
\* sender; a failed send (receiver gone) is ignored
send_crossed(w, tx, result) ==
    LET other == CHOOSE o \in DOMAIN w.chan : o # tx
    IN  [w EXCEPT !.chan[tx] = ChannelDropSender(@),
                  !.chan[other] = ChannelSend(@, result)]

send_wakes_all(w, tx, result) ==
    [w EXCEPT !.chan = [o \in DOMAIN w.chan |->
                           IF o = tx THEN ChannelSend(w.chan[o], result)
                           ELSE [w.chan[o] EXCEPT !.waker = FALSE]]]

send_forgotten(w, tx, result) ==
    [w EXCEPT !.chan[tx] = ChannelDropSender(@)]

send_expected(w, tx, result) ==
    IF w.chan[tx].receiver # "live"
    THEN Panic([w EXCEPT !.chan[tx] = ChannelSend(@, result)], "send failed")
    ELSE [w EXCEPT !.chan[tx] = ChannelSend(@, result)]

send_ignoring_failure(w, tx, result) ==
    [w EXCEPT !.chan[tx] = ChannelSend(@, result)]

\* complete_operation: the buffer taken out of the core, its active length
\* set to the bytes transferred
completed_buffer_keeps_len(buffer, bytes_transferred) == buffer

completed_buffer(buffer, bytes_transferred) ==
    BufferSetLen(buffer, bytes_transferred)

\* complete_operation: the result made of the status and the buffer
completion_result_nt_success(status, buffer) ==
    IF status < 0
    THEN ResultErr(WindowsError(HResultFromNt(status)), buffer)
    ELSE ResultOk(buffer)

completion_result(status, buffer) ==
    IF status # STATUS_SUCCESS
    THEN ResultErr(WindowsError(HResultFromNt(status)), buffer)
    ELSE ResultOk(buffer)

\* (a failed completion returns after taking the buffer)
complete_operation_drops_failed(w, key, bytes, status) ==
    LET core == Unwrap(w.items[key])
        buffer == completed_buffer(Unwrap(core.buffer), U32AsUSize(bytes))
        tx == Unwrap(core.result_tx)
        taken == [core EXCEPT !.buffer = None, !.started = FALSE,
                              !.result_tx = None]
    IN  IF status # STATUS_SUCCESS
        THEN [w EXCEPT !.items[key] = Some([core EXCEPT !.buffer = None])]
        ELSE release(send_ignoring_failure(
                         [w EXCEPT !.items[key] = Some(taken)],
                         tx, completion_result(status, buffer)),
                     core.key)

\* OperationStore::complete_operation, for the completion record
\* (lpOverlapped = the core at `key`, dwNumberOfBytesTransferred, Internal)
complete_operation(w, key, bytes, status) ==
    LET core == Unwrap(w.items[key])
        bytes_transferred == U32AsUSize(bytes)
    IN  IF core.buffer = None
        THEN Panic(w, "buffer must exist")
        ELSE IF ~core.started
        THEN Panic([w EXCEPT !.items[key] = Some([core EXCEPT !.buffer = None])],
                   "must have an operation start time")
        ELSE IF core.result_tx = None
        THEN Panic([w EXCEPT !.items[key] =
                        Some([core EXCEPT !.buffer = None, !.started = FALSE])],
                   "result tx must exist")
        ELSE
            LET buffer == completed_buffer(Unwrap(core.buffer), bytes_transferred)
                tx == Unwrap(core.result_tx)
                taken == [core EXCEPT !.buffer = None, !.started = FALSE,
                                      !.result_tx = None]
                sent == send_ignoring_failure(
                            [w EXCEPT !.items[key] = Some(taken)],
                            tx, completion_result(status, buffer))
            IN  release(sent, core.key)

\* complete_immediately: `assert!(bytes_transferred <= buffer.len())`
immediate_assertion_on_capacity(bytes_transferred, buffer) ==
    USizeLe(bytes_transferred, buffer.capacity)

immediate_assertion_positive(bytes_transferred, buffer) ==
    USizeLe(bytes_transferred, BufferLen(buffer)) /\ bytes_transferred # USize(0)

immediate_assertion(bytes_transferred, buffer) ==
    USizeLe(bytes_transferred, BufferLen(buffer))

\* complete_immediately: the buffer with its active length set to the
\* immediate bytes
immediate_buffer_keeps_len(buffer, bytes_transferred) == buffer

immediate_buffer(buffer, bytes_transferred) ==
    BufferSetLen(buffer, bytes_transferred)

\* complete_immediately: `_ = core.result_tx.take().expect(..).send(Ok(buffer))`
immediate_send_forgotten(w, tx, buffer) ==
    [w EXCEPT !.chan[tx] = ChannelDropSender(@)]

immediate_send(w, tx, buffer) ==
    [w EXCEPT !.chan[tx] = ChannelSend(@, ResultOk(buffer))]

\* OperationStore::complete_immediately, for the OVERLAPPED pointer of the
\* core at `key`
complete_immediately(w, key) ==
    LET core == Unwrap(w.items[key])
        bytes_transferred == U32AsUSize(core.immediate_bytes_transferred)
    IN  IF core.buffer = None
        THEN Panic(w, "buffer must exist")
        ELSE IF ~immediate_assertion(bytes_transferred, Unwrap(core.buffer))
        THEN Panic([w EXCEPT !.items[key] = Some([core EXCEPT !.buffer = None])],
                   "assertion failed: bytes_transferred <= buffer.len()")
        ELSE IF core.result_tx = None
        THEN Panic([w EXCEPT !.items[key] = Some([core EXCEPT !.buffer = None])],
                   "result tx must exist")
        ELSE
            LET buffer == immediate_buffer(Unwrap(core.buffer), bytes_transferred)
                tx == Unwrap(core.result_tx)
                taken == [core EXCEPT !.buffer = None, !.result_tx = None]
                sent == immediate_send([w EXCEPT !.items[key] = Some(taken)],
                                       tx, buffer)
            IN  release(sent, core.key)

\* (only the Windows form is recognised)
IsPending_windows_only(r) ==
    /\ ~r.ok
    /\ r.error.kind = "Windows" /\ r.error.code = HResultFromWin32(ERROR_IO_PENDING)

\* The two forms of the pending sentinel that begin matches
IsPending(r) ==
    /\ ~r.ok
    /\ \/ r.error.kind = "Windows" /\ r.error.code = HResultFromWin32(ERROR_IO_PENDING)
       \/ /\ r.error.kind = "Winsock"
          /\ r.error.code = SOCKET_ERROR
          /\ r.error.detail = WSA_IO_PENDING

\* `result_rx.await.expect(..)`, one poll of it: the outcome of begin's
\* future for this poll.  returned = Some(result) when the future resolves.
await_result_rx(w, rx) ==
    LET state == ChannelPoll(w.chan[rx])
    IN  CASE state = "Ready" ->
                [w |-> [w EXCEPT !.chan[rx] = ChannelReceive(@)],
                 returned |-> w.chan[rx].message]
          [] state = "Closed" ->
                [w |-> Panic(w, "no expected code path drops the I/O operation without signaling completion result"),
                 returned |-> None]
          [] OTHER ->
                [w |-> [w EXCEPT !.chan[rx].waker = TRUE], returned |-> None]

\* (the refused call's core is left in the store)
begin_rejected_leaks(w, key, result_rx, e) ==
    LET core == Unwrap(w.items[key])
        buffer == Unwrap(core.buffer)
    IN  [w |-> [w EXCEPT !.items[key] = Some([core EXCEPT !.buffer = None]),
                         !.chan[result_rx] = ChannelDropReceiver(@)],
         submitted |-> FALSE,
         returned |-> Some(ResultErr(e, buffer))]

\* (the refusal is sent through the core's sender and awaited)
begin_rejected_via_channel(w, key, result_rx, e) ==
    LET core == Unwrap(w.items[key])
        buffer == Unwrap(core.buffer)
        tx == Unwrap(core.result_tx)
        taken == [core EXCEPT !.buffer = None, !.result_tx = None]
        sent == [w EXCEPT !.items[key] = Some(taken),
                          !.chan[tx] = ChannelSend(@, ResultErr(e, buffer))]
        w3 == [sent EXCEPT !.items[key] = None]
    IN  [w |-> [w3 EXCEPT !.chan[result_rx] = ChannelReceive(@)],
         submitted |-> FALSE,
         returned |-> w3.chan[result_rx].message]

\* begin, the `Err(e)` arm: the closure's call was refused.  The buffer is
\* moved out of the core, the core released, the error returned with the
\* buffer; the receiver taken earlier is dropped on return.
begin_rejected(w, key, result_rx, e) ==
    LET core == Unwrap(w.items[key])
    IN  IF core.buffer = None
        THEN [w |-> Panic(w, "buffer must exist"), submitted |-> FALSE, returned |-> None]
        ELSE
            LET buffer == Unwrap(core.buffer)
                w2 == [w EXCEPT !.items[key] = Some([core EXCEPT !.buffer = None])]
                w3 == release(w2, core.key)
            IN  IF w3.panic # "none"
                THEN [w |-> w3, submitted |-> FALSE, returned |-> None]
                ELSE [w |-> [w3 EXCEPT !.chan[result_rx] = ChannelDropReceiver(@)],
                      submitted |-> FALSE,
                      returned |-> Some(ResultErr(e, buffer))]

\* (the completed call's result is left for a later poll)
begin_completed_suspends(w, key, result_rx) ==
    [w |-> complete_immediately(w, key), submitted |-> FALSE, returned |-> None]

\* begin, the `Ok(())` arm: complete_immediately, then the await
begin_completed(w, key, result_rx) ==
    LET w2 == complete_immediately(w, key)
    IN  IF w2.panic # "none"
        THEN [w |-> w2, submitted |-> FALSE, returned |-> None]
        ELSE LET a == await_result_rx(w2, result_rx)
             IN  [w |-> a.w, submitted |-> FALSE, returned |-> a.returned]

\* (the header is cleared once the OS has accepted the call)
begin_pending_resets_header(w, key, result_rx) ==
    LET a == await_result_rx(w, result_rx)
        core == Unwrap(a.w.items[key])
    IN  [w |-> [a.w EXCEPT !.items[key] =
                   Some([core EXCEPT !.overlapped =
                            [Offset |-> U32(0), OffsetHigh |-> U32(0)]])],
         submitted |-> TRUE, returned |-> a.returned]

\* begin, the pending arms: nothing is done, the await follows
begin_pending(w, key, result_rx) ==
    LET a == await_result_rx(w, result_rx)
    IN  [w |-> a.w, submitted |-> TRUE, returned |-> a.returned]

\* Operation::begin up to its first suspension, for the handle whose core is
\* at `key`; the closure returns r and, when r is ok, has written `bytes`
\* into the immediate-bytes cell.  submitted: the OS now owns the core.
begin(w, key, r, bytes) ==
    LET core == Unwrap(w.items[key])
    IN  IF core.result_rx = None
        THEN [w |-> Panic(w, "operation is always expected to have result rx"),
              submitted |-> FALSE, returned |-> None]
        ELSE IF core.buffer = None
        THEN [w |-> Panic(w, "the buffer is only removed when the operation completes"),
              submitted |-> FALSE, returned |-> None]
        ELSE
            LET result_rx == Unwrap(core.result_rx)
                \* result_rx taken, start time recorded, closure called
                called == [core EXCEPT
                             !.result_rx = None,
                             !.started = TRUE,
                             !.immediate_bytes_transferred =
                                 IF r.ok THEN bytes ELSE @]
                w1 == [w EXCEPT !.items[key] = Some(called)]
            IN  IF IsPending(r) THEN begin_pending(w1, key, result_rx)
                ELSE IF r.ok THEN begin_completed(w1, key, result_rx)
                ELSE begin_rejected(w1, key, result_rx, r.error)

(***************************************************************************)
(* OnceEvent.  The event is created in one of four storage flavors; every  *)
(* flavor's sender and receiver call the same OnceEvent::set and ::poll.   *)
(***************************************************************************)
MaxCalls == 4
MaxWakers == 2
Wakers == 1..MaxWakers
EventValues == {42, 7}
Flavors == {"ref", "rc", "unsafe", "embedded"}

\* EventState<T>
EventState_NotSet == [tag |-> "NotSet", waker |-> None, result |-> None]
EventState_Awaiting(waker) ==
    [tag |-> "Awaiting", waker |-> Some(waker), result |-> None]
EventState_Set(result) ==
    [tag |-> "Set", waker |-> None, result |-> Some(result)]
EventState_Consumed == [tag |-> "Consumed", waker |-> None, result |-> None]

\* What a call of set or poll did: the state it left, the waker it woke,
\* what it returned, and the message it panicked with ("none" if it did not)
Outcome(st, wake, returned, message) ==
    [state |-> st, wake |-> wake, returned |-> returned, panic |-> message]

\* OnceEvent::set, arm NotSet
set_NotSet(st, result) == Outcome(EventState_Set(result), None, None, "none")

\* OnceEvent::set, arm Awaiting: the state replaced, the previous waker woken
set_Awaiting_silent(st, result) ==
    Outcome(EventState_Set(result), None, None, "none")

set_Awaiting(st, result) ==
    Outcome(EventState_Set(result), st.waker, None, "none")

\* OnceEvent::set, arm Set
set_Set_overwrites(st, result) ==
    Outcome(EventState_Set(result), None, None, "none")

set_Set(st, result) == Outcome(st, None, None, "result already set")

\* OnceEvent::set, arm Consumed
set_Consumed(st, result) == Outcome(st, None, None, "result already consumed")

\* OnceEvent::set
OnceEvent_set(st, result) ==
    CASE st.tag = "NotSet" -> set_NotSet(st, result)
      [] st.tag = "Awaiting" -> set_Awaiting(st, result)
      [] st.tag = "Set" -> set_Set(st, result)
      [] st.tag = "Consumed" -> set_Consumed(st, result)

\* OnceEvent::poll, arm NotSet
poll_NotSet(st, waker) == Outcome(EventState_Awaiting(waker), None, None, "none")

\* OnceEvent::poll, arm Awaiting: the waker of this poll replaces the old one
poll_Awaiting_keeps_waker(st, waker) == Outcome(st, None, None, "none")

poll_Awaiting(st, waker) ==
    Outcome(EventState_Awaiting(waker), None, None, "none")

\* OnceEvent::poll, arm Set: the state replaced by Consumed, the result returned
poll_Set_registers(st, waker) ==
    Outcome(EventState_Awaiting(waker), None, None, "none")

poll_Set_keeps_value(st, waker) == Outcome(st, None, st.result, "none")

poll_Set(st, waker) == Outcome(EventState_Consumed, None, st.result, "none")

\* OnceEvent::poll, arm Consumed
poll_Consumed_restarts(st, waker) ==
    Outcome(EventState_Awaiting(waker), None, None, "none")

poll_Consumed_not_ready(st, waker) == Outcome(st, None, None, "none")

poll_Consumed(st, waker) ==
    Outcome(st, None, None, "event polled after result was already consumed")

\* OnceEvent::poll
OnceEvent_poll(st, waker) ==
    CASE st.tag = "NotSet" -> poll_NotSet(st, waker)
      [] st.tag = "Awaiting" -> poll_Awaiting(st, waker)
      [] st.tag = "Set" -> poll_Set(st, waker)
      [] st.tag = "Consumed" -> poll_Consumed(st, waker)

\* Dropping one reference to the event's storage
dec_ref(count) == count - 1

\* RefSender / RcSender / UnsafeSender / EmbeddedSender ::set(self, result):
\* the reference count after the call.  The slab flavors' sender drops its
\* reference when `self` goes out of scope, on a panic too; the embedded
\* sender calls dec_ref after the set and has no destructor.
Sender_set_refs(flavor, count, panicked) ==
    IF flavor = "embedded" /\ panicked THEN count ELSE dec_ref(count)

\* The sender dropped without a set: only the slab flavors' reference is
\* given back (EmbeddedSender has no Drop)
Sender_drop_refs_decrements(flavor, count) == dec_ref(count)

Sender_drop_refs(flavor, count) ==
    IF flavor = "embedded" THEN count ELSE dec_ref(count)

\* Drop of the receiver: every flavor gives its reference back
Receiver_drop_refs_keeps(flavor, count) == count

Receiver_drop_refs(flavor, count) == dec_ref(count)

\* OnceEventEmbeddedStorage::is_inert: no reference is left
is_inert(count) == count = 0

\* The once-event variables while no once-event exists
EventUnused ==
    /\ event_flavor = "none"
    /\ event_state = EventState_NotSet
    /\ event_sender = "dropped"
    /\ event_receiver = "dropped"
    /\ ref_count = 0
    /\ woken = [w \in Wakers |-> 0]
    /\ calls = <<>>

(***************************************************************************)
(* Initial state: an empty store, no operation created yet.                *)
(***************************************************************************)
OperationsInit ==
    /\ items = [k \in Keys |-> None]
    /\ chan = [o \in Ops |-> NewChannel]
    /\ osOwned = {}
    /\ panic = "none"
    /\ pc = [o \in Ops |-> "unborn"]
    /\ handle = [o \in Ops |-> None]
    /\ observed = [o \in Ops |-> <<>>]
    /\ closure = [o \in Ops |-> None]
    /\ completion = [o \in Ops |-> None]
    /\ requested_offset = [o \in Ops |-> None]

Init == OperationsInit /\ EventUnused

\* The operation whose core sits at `key`: the one whose sender it holds
OpOfKey(key) == Unwrap(Unwrap(items[key]).result_tx)

SetWorld(w) ==
    /\ items' = w.items
    /\ chan' = w.chan
    /\ panic' = w.panic

(***************************************************************************)
(* Actions.                                                                *)
(***************************************************************************)
\* PinnedSlabChain::begin_insert().index(): the key of the slot the next
\* insert fills.  Which vacant slot the chain picks cannot be told apart after
\* renaming keys, so the lowest vacant one stands for any of them.
begin_insert_index(its) ==
    CHOOSE k \in DOMAIN its : its[k] = None /\ \A k2 \in DOMAIN its : k2 < k => its[k2] # None

\* OperationStore::new_operation(buffer)
NewOperation(o, shape) ==
    /\ panic = "none"
    /\ pc[o] = "unborn"
    /\ \A p \in Ops : p < o => pc[p] # "unborn"
    /\ LET key == begin_insert_index(items)
       IN  /\ items' = [items EXCEPT ![key] =
                           Some(OperationCore_new(key, Buffer(o, shape[1], shape[2]), o))]
           /\ handle' = [handle EXCEPT ![o] = Some(key)]
    /\ pc' = [pc EXCEPT ![o] = "handle"]
    /\ UNCHANGED <<chan, osOwned, panic, observed, closure, completion>>
    /\ UNCHANGED <<evars, requested_offset>>

\* Operation::set_offset(offset), on a handle not yet begun
SetOffset(o, offset) ==
    /\ panic = "none"
    /\ pc[o] = "handle"
    /\ LET key == Unwrap(handle[o])
       IN  items' = [items EXCEPT ![key] = Some(set_offset(Unwrap(@), offset))]
    /\ requested_offset' = [requested_offset EXCEPT ![o] = Some(offset)]
    /\ UNCHANGED <<chan, osOwned, panic, pc, handle, observed, closure, completion>>
    /\ UNCHANGED evars

\* Drop for Operation: the handle (or the future of begin that was never
\* polled) is dropped
DropOperation(o) ==
    /\ panic = "none"
    /\ pc[o] = "handle"
    /\ SetWorld(drop(World, Unwrap(items[Unwrap(handle[o])])))
    /\ pc' = [pc EXCEPT ![o] = IF panic' = "none" THEN "dropped" ELSE "panicked"]
    /\ handle' = [handle EXCEPT ![o] = None]
    /\ UNCHANGED <<osOwned, observed, closure, completion>>
    /\ UNCHANGED <<evars, requested_offset>>

\* First poll of the future of Operation::begin(f)
Begin(o, r, bytes) ==
    /\ panic = "none"
    /\ pc[o] = "handle"
    /\ LET key == Unwrap(handle[o])
           b == begin(World, key, r, bytes)
       IN  /\ SetWorld(b.w)
           /\ osOwned' = IF b.submitted THEN osOwned \cup {key} ELSE osOwned
           /\ pc' = [pc EXCEPT ![o] =
                        IF b.w.panic # "none" THEN "panicked"
                        ELSE IF IsSome(b.returned) THEN "done"
                        ELSE "awaiting"]
           /\ observed' = [observed EXCEPT ![o] = @ \o b.returned]
    /\ closure' = [closure EXCEPT ![o] = Some(ClosureRecord(r, bytes))]
    /\ handle' = [handle EXCEPT ![o] = shattered(@)]
    /\ UNCHANGED completion
    /\ UNCHANGED <<evars, requested_offset>>

\* A later poll of the future of begin, suspended at result_rx.await
PollBegin(o) ==
    /\ panic = "none"
    /\ pc[o] = "awaiting"
    /\ LET a == await_result_rx(World, o)
       IN  /\ SetWorld(a.w)
           /\ pc' = [pc EXCEPT ![o] =
                        IF a.w.panic # "none" THEN "panicked"
                        ELSE IF IsSome(a.returned) THEN "done"
                        ELSE "awaiting"]
           /\ observed' = [observed EXCEPT ![o] = @ \o a.returned]
    /\ UNCHANGED <<osOwned, handle, closure, completion>>
    /\ UNCHANGED <<evars, requested_offset>>

\* The future of begin is dropped while suspended: its receiver is dropped
DropFuture(o) ==
    /\ panic = "none"
    /\ pc[o] = "awaiting"
    /\ chan' = [chan EXCEPT ![o] = ChannelDropReceiver(@)]
    /\ pc' = [pc EXCEPT ![o] = "abandoned"]
    /\ UNCHANGED <<items, osOwned, panic, handle, observed, closure, completion>>
    /\ UNCHANGED <<evars, requested_offset>>

\* The poller hands a completion record to complete_operation.  The OS
\* transfers no more than the active length it was given.
CompleteOperation(key, bytes, status) ==
    /\ panic = "none"
    /\ key \in osOwned
    /\ USizeLe(U32AsUSize(bytes), BufferLen(Unwrap(Unwrap(items[key]).buffer)))
    /\ LET o == OpOfKey(key)
       IN  completion' = [completion EXCEPT ![o] =
                              Some([bytes |-> bytes, status |-> status])]
    /\ SetWorld(complete_operation(World, key, bytes, status))
    /\ osOwned' = osOwned \ {key}
    /\ UNCHANGED <<pc, handle, observed, closure>>
    /\ UNCHANGED <<evars, requested_offset>>

Next ==
    \/ \E o \in Ops, shape \in BufferShapes : NewOperation(o, shape)
    \/ \E o \in Ops : DropOperation(o)
    \/ \E o \in Ops, r \in ClosureResults, bytes \in ImmediateByteCounts :
           Begin(o, r, IF r.ok THEN bytes ELSE U32(0))
    \/ \E o \in Ops : PollBegin(o)
    \/ \E o \in Ops : DropFuture(o)
    \/ \E key \in Keys, rec \in CompletionRecords :
           CompleteOperation(key, rec[1], rec[2])

Spec == Init /\ [][Next]_vars

\* The executor keeps polling a suspended future, and the poller delivers
\* the completion of every core the OS holds.
Fairness ==
    /\ \A o \in Ops : WF_vars(PollBegin(o))
    /\ \A key \in Keys : WF_vars(\E rec \in CompletionRecords :
                                     CompleteOperation(key, rec[1], rec[2]))

FairSpec == Spec /\ Fairness

(***************************************************************************)
(* One operation with values beyond 32 bits: buffers at and above the      *)
(* 32-bit I/O limit, 64-bit file offsets, byte counts up to u32::MAX.      *)
(***************************************************************************)
\* <<capacity, active length>>: small, at the limit, one above, far above
WideShapes ==
    { <<USize(64), USize(64)>>,
      <<U32_MAX, U32_MAX>>,
      <<(<<0, 1, 0, 0>>), (<<0, 1, 0, 0>>)>>,
      <<(<<1, 0, 0, 0>>), (<<0, 2, 0, 5>>)>> }

\* File offsets: below 2^32, 2^32, above it, usize::MAX
Offsets ==
    { USize(4096), <<0, 1, 0, 0>>, <<0, 3, LimbMax, 7>>,
      <<LimbMax, LimbMax, LimbMax, LimbMax>> }

WideByteCounts == { U32(0), U32(64), <<LimbMax, LimbMax>> }

WideCompletionRecords ==
    { <<U32(40), STATUS_SUCCESS>>,
      <<(<<LimbMax, LimbMax>>), STATUS_SUCCESS>>,
      <<(<<LimbMax, LimbMax>>), 259>> }

WideNext ==
    \/ \E shape \in WideShapes : NewOperation(1, shape)
    \/ \E offset \in Offsets : SetOffset(1, offset)
    \/ DropOperation(1)
    \/ \E r \in ClosureResults, bytes \in WideByteCounts :
           Begin(1, r, IF r.ok THEN bytes ELSE U32(0))
    \/ PollBegin(1)
    \/ DropFuture(1)
    \/ \E rec \in WideCompletionRecords : CompleteOperation(0, rec[1], rec[2])

WideSpec == Init /\ [][WideNext]_vars

(***************************************************************************)
(* The once-event on its own: one event, created in any flavor, its two    *)
(* ends used in any order.                                                 *)
(***************************************************************************)
\* OnceEvent::new_in_ref / new_in_rc / new_in_unsafe / new_embedded: a fresh
\* event with one reference for the sender and one for the receiver
EventInit ==
    /\ OperationsInit
    /\ event_flavor \in Flavors
    /\ event_state = EventState_NotSet
    /\ event_sender = "live"
    /\ event_receiver = "live"
    /\ ref_count = 2
    /\ woken = [w \in Wakers |-> 0]
    /\ calls = <<>>

CallRecord(call, arg, out) ==
    [call |-> call, arg |-> arg, before |-> event_state.tag,
     returned |-> out.returned, wake |-> out.wake,
     panicked |-> out.panic # "none"]

ApplyOutcome(call, arg, out) ==
    /\ event_state' = out.state
    /\ panic' = out.panic
    /\ woken' = IF IsSome(out.wake)
                THEN [woken EXCEPT ![Unwrap(out.wake)] = @ + 1]
                ELSE woken
    /\ calls' = Append(calls, CallRecord(call, arg, out))

\* XSender::set(self, result)
SenderSet(result) ==
    /\ panic = "none"
    /\ Len(calls) < MaxCalls
    /\ event_sender = "live"
    /\ LET out == OnceEvent_set(event_state, result)
       IN  /\ ApplyOutcome("set", result, out)
           /\ ref_count' = Sender_set_refs(event_flavor, ref_count, out.panic # "none")
    /\ event_sender' = "used"
    /\ UNCHANGED <<event_flavor, event_receiver>>
    /\ UNCHANGED <<items, chan, osOwned, pc, handle, observed, closure, completion,
                   requested_offset>>

\* OnceEvent::set called on the event directly, through the reference one of
\* the ends holds (the only way a set can follow another set)
OnceEventSet(result) ==
    /\ panic = "none"
    /\ Len(calls) < MaxCalls
    /\ event_sender = "live" \/ event_receiver = "live"
    /\ ApplyOutcome("set", result, OnceEvent_set(event_state, result))
    /\ UNCHANGED <<event_flavor, event_sender, event_receiver, ref_count>>
    /\ UNCHANGED <<items, chan, osOwned, pc, handle, observed, closure, completion,
                   requested_offset>>

\* Future::poll of XReceiver with the context's waker
ReceiverPoll(waker) ==
    /\ panic = "none"
    /\ Len(calls) < MaxCalls
    /\ event_receiver = "live"
    /\ ApplyOutcome("poll", waker, OnceEvent_poll(event_state, waker))
    /\ UNCHANGED <<event_flavor, event_sender, event_receiver, ref_count>>
    /\ UNCHANGED <<items, chan, osOwned, pc, handle, observed, closure, completion,
                   requested_offset>>

\* The sender dropped without a set
DropSender ==
    /\ panic = "none"
    /\ event_sender = "live"
    /\ event_sender' = "dropped"
    /\ ref_count' = Sender_drop_refs(event_flavor, ref_count)
    /\ UNCHANGED <<event_flavor, event_state, event_receiver, woken, calls>>
    /\ UNCHANGED opvars

\* The receiver dropped
DropReceiver ==
    /\ panic = "none"
    /\ event_receiver = "live"
    /\ event_receiver' = "dropped"
    /\ ref_count' = Receiver_drop_refs(event_flavor, ref_count)
    /\ UNCHANGED <<event_flavor, event_state, event_sender, woken, calls>>
    /\ UNCHANGED opvars

EventNext ==
    \/ \E result \in EventValues : SenderSet(result)
    \/ \E result \in EventValues : OnceEventSet(result)
    \/ \E waker \in Wakers : ReceiverPoll(waker)
    \/ DropSender
    \/ DropReceiver

EventSpec == EventInit /\ [][EventNext]_vars

(***************************************************************************)
(* What the properties speak of.                                           *)
(***************************************************************************)
RecvErrorPanic ==
    "no expected code path drops the I/O operation without signaling completion result"
AssertionPanic == "assertion failed: bytes_transferred <= buffer.len()"

\* The keys at which the store holds the core of operation o
CoreKeysOf(o) ==
    { k \in Keys : items[k] # None /\ Unwrap(items[k]).result_tx = Some(o) }

\* The closure of o was called and returned this kind of outcome
ClosureWas(o, kind) == closure[o] # None /\ Unwrap(closure[o]).kind = kind

\* o is outstanding (allocated, not yet submitted) or awaiting completion
\* (accepted by the OS, completion not yet delivered by the poller)
Outstanding(o) ==
    \/ pc[o] = "handle"
    \/ ClosureWas(o, "pending") /\ completion[o] = None

\* Results the awaiter of o has, or has waiting for it in the channel
ResultsAvailable(o) ==
    Len(observed[o]) + (IF IsSome(chan[o].message) THEN 1 ELSE 0)

(***************************************************************************)
(* C1.  The awaiter of an operation observes exactly one result: never two,*)
(* never zero once the operation is finished (begin returned, or the block *)
(* was released after submission while the awaiter still waits), and never *)
(* before the submission closure was invoked.                              *)
(***************************************************************************)
C1_ExactlyOneResult ==
    \A o \in Ops :
        /\ ResultsAvailable(o) <= 1
        /\ ResultsAvailable(o) >= 1 => closure[o] # None
        /\ pc[o] = "done" => Len(observed[o]) = 1
        /\ (pc[o] = "awaiting" /\ CoreKeysOf(o) = {}) => ResultsAvailable(o) = 1

\* Every closure outcome has delivered its one result.
C1_Witness ==
    /\ \E o \in Ops : pc[o] = "done" /\ ClosureWas(o, "pending") /\ Len(observed[o]) = 1
    /\ \E o \in Ops : pc[o] = "done" /\ ClosureWas(o, "rejected") /\ Len(observed[o]) = 1

(***************************************************************************)
(* C2.  With a poller that completes every accepted operation and an       *)
(* executor that keeps polling, every suspended begin resolves (unless its *)
(* future is dropped or the agent dies of a failed assertion); a submitted *)
(* block is never released with its sender unused, and the await never     *)
(* fails because the sender was dropped.                                   *)
(***************************************************************************)
C2_BeginResolves ==
    /\ \A o \in Ops :
          (pc[o] = "awaiting") ~> (pc[o] \in {"done", "abandoned"} \/ panic # "none")
    /\ [](\A o \in Ops :
            (ClosureWas(o, "pending") /\ CoreKeysOf(o) = {})
                => chan[o].sender \in {"sent", "failed"})
    /\ [](panic # RecvErrorPanic)

\* A begin that was suspended has resolved with what the poller delivered.
C2_Witness ==
    \E o \in Ops : pc[o] = "done" /\ ClosureWas(o, "pending") /\ completion[o] # None

(***************************************************************************)
(* C3.  is_empty() is true exactly when no operation is outstanding or     *)
(* awaiting completion (in every state of a running agent).                *)
(***************************************************************************)
C3_EmptyIffNoneOutstanding ==
    panic = "none" => (is_empty(items) <=> \A o \in Ops : ~Outstanding(o))

\* The pool is empty again after an async completion and a dropped handle.
C3_Witness ==
    /\ is_empty(items)
    /\ \E o \in Ops : completion[o] # None
    /\ \E o \in Ops : pc[o] = "dropped"

C5_AllFailuresThroughChannel ==
    \A o \in Ops :
        (pc[o] = "done" /\ observed[o][1].kind = "Err") =>
            chan[o].sender = "sent" /\ chan[o].receiver = "received"

(***************************************************************************)
(* C5, as the code has it.  A completion failure reaches the awaiter       *)
(* through the channel: the sender sends the error paired with the         *)
(* operation's buffer and the awaiter takes it from the receiver.  A       *)
(* rejected submission does not: begin returns the error paired with the   *)
(* buffer itself, and the block's sender and the receiver are dropped      *)
(* unused.                                                                 *)
(***************************************************************************)
C5_FailurePaths ==
    \A o \in Ops :
        /\ (completion[o] # None /\ Unwrap(completion[o]).status # STATUS_SUCCESS) =>
              /\ pc[o] = "awaiting" =>
                    /\ chan[o].sender = "sent"
                    /\ IsSome(chan[o].message)
                    /\ Unwrap(chan[o].message).kind = "Err"
                    /\ Unwrap(chan[o].message).buffer.id = o
              /\ pc[o] = "done" =>
                    /\ chan[o].sender = "sent" /\ chan[o].receiver = "received"
                    /\ observed[o][1].kind = "Err"
                    /\ observed[o][1].buffer.id = o
        /\ ClosureWas(o, "rejected") =>
              /\ pc[o] = "done"
              /\ observed[o][1].kind = "Err"
              /\ observed[o][1].error = Unwrap(closure[o]).error
              /\ observed[o][1].buffer.id = o
              /\ chan[o].sender = "dropped" /\ chan[o].receiver = "dropped"

\* Both kinds of failure have reached their awaiters.
C5_Witness ==
    /\ \E o \in Ops : /\ pc[o] = "done" /\ completion[o] # None
                      /\ observed[o][1].kind = "Err"
    /\ \E o \in Ops : /\ pc[o] = "done" /\ ClosureWas(o, "rejected")
                      /\ observed[o][1].kind = "Err"

(***************************************************************************)
(* C6.  A closure that returns ok after writing n into the immediate-bytes *)
(* cell (n passing the assertion of the sync path, see C7) makes begin     *)
(* return success with the operation's buffer, active length n, in the     *)
(* same poll: the result went through the channel, the slot is released    *)
(* without any completion record, and the pool is empty when no other      *)
(* operation is live.                                                      *)
(***************************************************************************)
C6_SyncCompletion ==
    \A o \in Ops :
        (ClosureWas(o, "ok") /\ pc[o] # "panicked") =>
            /\ pc[o] = "done"
            /\ observed[o] =
                  <<ResultOk([id |-> o,
                              capacity |-> observed[o][1].buffer.capacity,
                              len |-> U32AsUSize(Unwrap(closure[o]).bytes),
                              supplied |-> observed[o][1].buffer.supplied])>>
            /\ chan[o].sender = "sent" /\ chan[o].receiver = "received"
            /\ completion[o] = None
            /\ CoreKeysOf(o) = {}
            /\ (panic = "none" /\ \A p \in Ops : ~Outstanding(p)) => is_empty(items)

\* A 64-byte buffer, 64 written by the closure: success with 64 bytes.
C6_Witness ==
    \E o \in Ops :
        /\ ClosureWas(o, "ok")
        /\ Unwrap(closure[o]).bytes = U32(64)
        /\ observed[o] = <<ResultOk(Buffer(o, USize(64), USize(64)))>>
        /\ is_empty(items)

\* The buffer the handle of o holds before begin
HandleBuffer(o) == Unwrap(Unwrap(items[Unwrap(handle[o])]).buffer)

(***************************************************************************)
(* C7.  As claimed: the sync path panics exactly when the immediate-bytes  *)
(* value exceeds the buffer's capacity, and otherwise sets the active      *)
(* length to it.                                                           *)
(***************************************************************************)
C7_AssertsAgainstCapacity ==
    [][\A o \in Ops, bytes \in ImmediateByteCounts :
          (pc[o] = "handle" /\ Begin(o, ClosureOk, bytes)) =>
              IF USizeLe(U32AsUSize(bytes), HandleBuffer(o).capacity)
              THEN /\ panic' = "none"
                   /\ observed'[o][1].buffer.len = U32AsUSize(bytes)
              ELSE panic' = AssertionPanic]_vars

(***************************************************************************)
(* C7, as the code has it.  The sync path asserts that the immediate-bytes *)
(* value is at most the buffer's active length (buffer.len()): for every   *)
(* value up to the active length it completes without panicking and sets   *)
(* the active length to it, and it panics exactly when the value exceeds   *)
(* the active length, even if the capacity would hold it.                  *)
(***************************************************************************)
C7_AssertsAgainstActiveLength ==
    [][\A o \in Ops, bytes \in ImmediateByteCounts :
          (pc[o] = "handle" /\ Begin(o, ClosureOk, bytes)) =>
              IF USizeLe(U32AsUSize(bytes), HandleBuffer(o).len)
              THEN /\ panic' = "none"
                   /\ observed'[o][1].buffer.len = U32AsUSize(bytes)
              ELSE panic' = AssertionPanic /\ pc'[o] = "panicked"]_vars

\* The assertion of the sync path has failed.
C7_Witness ==
    \E o \in Ops :
        /\ pc[o] = "panicked" /\ panic = AssertionPanic
        /\ ClosureWas(o, "ok") /\ Unwrap(closure[o]).bytes = U32(40)

(***************************************************************************)
(* C8.  When the poller delivers byte count n with the success status for  *)
(* an accepted operation, the slot is released and the awaiter receives    *)
(* success with the operation's buffer, active length n.                   *)
(***************************************************************************)
C8_AsyncSuccess ==
    \A o \in Ops :
        (completion[o] # None /\ Unwrap(completion[o]).status = STATUS_SUCCESS) =>
            LET n == U32AsUSize(Unwrap(completion[o]).bytes)
            IN  /\ ClosureWas(o, "pending")
                /\ CoreKeysOf(o) = {}
                /\ pc[o] = "awaiting" =>
                      /\ IsSome(chan[o].message)
                      /\ Unwrap(chan[o].message).kind = "Ok"
                      /\ Unwrap(chan[o].message).buffer.id = o
                      /\ Unwrap(chan[o].message).buffer.len = n
                /\ pc[o] = "done" =>
                      /\ Len(observed[o]) = 1
                      /\ observed[o][1].kind = "Ok"
                      /\ observed[o][1].buffer.id = o
                      /\ observed[o][1].buffer.len = n

\* A 128-byte buffer completed with 40: success with a 40-byte active region.
C8_Witness ==
    \E o \in Ops :
        /\ pc[o] = "done"
        /\ completion[o] = Some([bytes |-> U32(40), status |-> STATUS_SUCCESS])
        /\ observed[o] = <<ResultOk([id |-> o, capacity |-> USize(128),
                                     len |-> USize(40), supplied |-> USize(128)])>>

(***************************************************************************)
(* C9.  When the poller delivers a status other than STATUS_SUCCESS for an *)
(* accepted operation, the slot is released and the awaiter receives a     *)
(* failure carrying that status (as a Windows error) and the operation's   *)
(* buffer, its active length set to the reported byte count.               *)
(***************************************************************************)
C9_AsyncFailure ==
    \A o \in Ops :
        (completion[o] # None /\ Unwrap(completion[o]).status # STATUS_SUCCESS) =>
            LET n == U32AsUSize(Unwrap(completion[o]).bytes)
                e == WindowsError(HResultFromNt(Unwrap(completion[o]).status))
            IN  /\ ClosureWas(o, "pending")
                /\ CoreKeysOf(o) = {}
                /\ pc[o] = "awaiting" =>
                      /\ IsSome(chan[o].message)
                      /\ Unwrap(chan[o].message).kind = "Err"
                      /\ Unwrap(chan[o].message).error = e
                      /\ Unwrap(chan[o].message).buffer.id = o
                      /\ Unwrap(chan[o].message).buffer.len = n
                /\ pc[o] = "done" =>
                      /\ Len(observed[o]) = 1
                      /\ observed[o][1].kind = "Err"
                      /\ observed[o][1].error = e
                      /\ observed[o][1].buffer.id = o
                      /\ observed[o][1].buffer.len = n

\* A completion with a positive status that is not success, 40 bytes.
C9_Witness ==
    \E o \in Ops :
        /\ pc[o] = "done"
        /\ completion[o] = Some([bytes |-> U32(40), status |-> 259])
        /\ observed[o][1].kind = "Err"
        /\ observed[o][1].buffer.len = USize(40)

(***************************************************************************)
(* C10.  When the future of begin is dropped after the closure returned    *)
(* pending and before the poller fires, the block stays in the pool, owned *)
(* by the OS, until complete_operation is called; that call does not       *)
(* panic, its send fails silently (nothing is delivered), it releases the  *)
(* slot, and the pool is empty again when no other operation is live.      *)
(* With a poller that completes every accepted operation the slot is       *)
(* eventually released.                                                    *)
(***************************************************************************)
C10_DroppedAwaiter ==
    /\ [](\A o \in Ops :
            pc[o] = "abandoned" =>
                /\ completion[o] = None =>
                      CoreKeysOf(o) # {} /\ CoreKeysOf(o) \subseteq osOwned
                /\ completion[o] # None =>
                      /\ CoreKeysOf(o) = {}
                      /\ chan[o].message = None
                      /\ observed[o] = <<>>)
    /\ [][\A key \in Keys, rec \in CompletionRecords :
            (/\ key \in osOwned
             /\ pc[OpOfKey(key)] = "abandoned"
             /\ CompleteOperation(key, rec[1], rec[2])) =>
                /\ panic' = "none"
                /\ chan'[OpOfKey(key)].sender = "failed"
                /\ chan'[OpOfKey(key)].message = None
                /\ items'[key] = None
                /\ (\A p \in Ops : ~Outstanding(p)') => is_empty(items')]_vars
    /\ \A o \in Ops :
          (pc[o] = "abandoned") ~> (CoreKeysOf(o) = {} \/ panic # "none")

\* The poller fired for an operation whose awaiter was gone; the pool is empty.
C10_Witness ==
    \E o \in Ops :
        /\ pc[o] = "abandoned" /\ completion[o] # None
        /\ chan[o].sender = "failed"
        /\ panic = "none" /\ is_empty(items)

(***************************************************************************)
(* C11.  A handle dropped before its closure was ever invoked (the future  *)
(* of begin dropped before its first poll included) releases its block:    *)
(* the store holds no core of that operation, both channel ends are gone,  *)
(* nothing was delivered, and the store holds exactly one slot per         *)
(* operation that is still outstanding.                                    *)
(***************************************************************************)
OccupiedKeys == { k \in Keys : items[k] # None }

C11_DropBeforeSubmission ==
    /\ \A o \in Ops :
          pc[o] = "dropped" =>
              /\ CoreKeysOf(o) = {}
              /\ closure[o] = None
              /\ observed[o] = <<>>
              /\ chan[o].sender = "dropped"
              /\ chan[o].receiver = "dropped"
              /\ chan[o].message = None
    /\ panic = "none" =>
          Cardinality(OccupiedKeys) = Cardinality({ o \in Ops : Outstanding(o) })

\* One handle was dropped unsubmitted while another operation is in flight.
C11_Witness ==
    /\ panic = "none"
    /\ \E o \in Ops : pc[o] = "dropped"
    /\ \E o \in Ops : pc[o] = "awaiting" /\ Outstanding(o)
    /\ Cardinality(OccupiedKeys) = 1

(***************************************************************************)
(* C12.  Every block in the store is referenced by exactly one party: a    *)
(* handle of the runtime, or the OS - never both, never two handles.       *)
(* While the OS holds a block no step changes it; it leaves the OS's hands *)
(* only by the poller's complete_operation for it.                         *)
(***************************************************************************)
RuntimeHeld(key) == \E o \in Ops : handle[o] = Some(key)

C12_OneParty ==
    /\ [](panic = "none" =>
            /\ \A key \in Keys :
                  /\ items[key] # None => (RuntimeHeld(key) <=> key \notin osOwned)
                  /\ items[key] = None => ~RuntimeHeld(key) /\ key \notin osOwned
            /\ \A o, p \in Ops :
                  (IsSome(handle[o]) /\ handle[o] = handle[p]) => o = p)
    /\ [][\A key \in osOwned :
              /\ key \in osOwned' => items'[key] = items[key]
              /\ key \notin osOwned' =>
                    /\ items'[key] = None
                    /\ completion[OpOfKey(key)] = None
                    /\ completion'[OpOfKey(key)] # None]_vars

\* One block is in the OS's hands while the awaiter was polled again, and
\* another block is still held by its handle.
C12_Witness ==
    /\ panic = "none"
    /\ \E key \in osOwned : chan[OpOfKey(key)].waker /\ ~RuntimeHeld(key)
    /\ \E key \in Keys : RuntimeHeld(key) /\ key \notin osOwned

(***************************************************************************)
(* C13.  For every block present in the store, the buffer slot is occupied *)
(* exactly when the operation has not delivered its result (no result in   *)
(* the channel, none returned by begin).                                   *)
(***************************************************************************)
C13_BufferIffUndelivered ==
    panic = "none" =>
        \A key \in OccupiedKeys :
            IsSome(Unwrap(items[key]).buffer) <=> ResultsAvailable(OpOfKey(key)) = 0

\* A block is in flight with its buffer while the other operations have
\* delivered on their paths and left the store.
C13_Witness ==
    /\ panic = "none"
    /\ \E key \in osOwned : IsSome(Unwrap(items[key]).buffer)
    /\ \E o \in Ops : pc[o] = "done" /\ CoreKeysOf(o) = {}

(***************************************************************************)
(* C14.  The buffer an awaiter gets - returned by begin or waiting in its  *)
(* channel, as success or as error - is the buffer that was supplied to    *)
(* new_operation for that operation, whatever the order of completions;    *)
(* every core in the store holds the buffer of its own operation.          *)
(***************************************************************************)
C14_OwnBuffer ==
    /\ \A o \in Ops :
          /\ \A i \in 1..Len(observed[o]) : observed[o][i].buffer.id = o
          /\ IsSome(chan[o].message) => Unwrap(chan[o].message).buffer.id = o
    /\ \A key \in OccupiedKeys :
          LET core == Unwrap(items[key])
          IN  (IsSome(core.buffer) /\ IsSome(core.result_tx)) =>
                  Unwrap(core.buffer).id = Unwrap(core.result_tx)

\* The later operation completed first, with an error, and got its own
\* buffer, while the earlier one is still in flight.
C14_Witness ==
    \E o, p \in Ops :
        /\ o < p
        /\ pc[o] = "awaiting" /\ completion[o] = None /\ ClosureWas(o, "pending")
        /\ pc[p] = "done" /\ ClosureWas(p, "pending")
        /\ observed[p][1].kind = "Err"
        /\ observed[p][1].buffer.id = p

(***************************************************************************)
(* What the once-event properties speak of.                                *)
(***************************************************************************)
CallIndexes == 1..Len(calls)
SetCalls == { i \in CallIndexes : calls[i].call = "set" }
PollCalls == { i \in CallIndexes : calls[i].call = "poll" }
SuccessfulSets == { i \in SetCalls : ~calls[i].panicked }
ReadyPolls == { i \in PollCalls : IsSome(calls[i].returned) }

\* The step is a call of set / of poll
SetStep == Len(calls') = Len(calls) + 1 /\ calls'[Len(calls')].call = "set"
PollStep == Len(calls') = Len(calls) + 1 /\ calls'[Len(calls')].call = "poll"

NoneWoken == [w \in Wakers |-> 0]
OnlyWoken(waker) == [w \in Wakers |-> IF w = waker THEN 1 ELSE 0]

(***************************************************************************)
(* C15.  Every change of a once-event's state is one of NotSet->Awaiting,  *)
(* NotSet->Set, Awaiting->Set (waking the registered waker), Set->Consumed,*)
(* Awaiting->Awaiting; Consumed is never left, a stored value is never     *)
(* replaced, and at most one set succeeds, whatever calls are made.        *)
(***************************************************************************)
LegalTransitions ==
    { <<"NotSet", "Awaiting">>, <<"NotSet", "Set">>, <<"Awaiting", "Set">>,
      <<"Set", "Consumed">>, <<"Awaiting", "Awaiting">> }

C15_LegalTransitions ==
    /\ [][/\ event_state' # event_state =>
                <<event_state.tag, event_state'.tag>> \in LegalTransitions
          /\ (event_state.tag = "Awaiting" /\ event_state'.tag = "Set") =>
                woken' = [woken EXCEPT ![Unwrap(event_state.waker)] = @ + 1]
          /\ event_state.tag = "Consumed" => event_state' = event_state
          /\ event_state.tag = "Set" =>
                event_state' \in {event_state, EventState_Consumed}]_vars
    /\ [](Cardinality(SuccessfulSets) <= 1)

\* The event went NotSet -> Awaiting -> Awaiting -> Set -> Consumed.
C15_Witness ==
    /\ event_state = EventState_Consumed
    /\ Len(calls) = 4
    /\ calls[1].call = "poll" /\ calls[1].before = "NotSet"
    /\ calls[2].call = "poll" /\ calls[2].before = "Awaiting"
    /\ calls[2].arg # calls[1].arg
    /\ calls[3].call = "set" /\ calls[3].before = "Awaiting"
    /\ calls[4].call = "poll" /\ calls[4].before = "Set"

(***************************************************************************)
(* C16.  A set on a once-event that is Set or Consumed panics ("result     *)
(* already set" / "result already consumed"), each time, and leaves the    *)
(* state, the stored value and the wakers as they were.                    *)
(***************************************************************************)
C16_SecondSetPanics ==
    [][(SetStep /\ event_state.tag \in {"Set", "Consumed"}) =>
          /\ panic' = IF event_state.tag = "Set"
                      THEN "result already set"
                      ELSE "result already consumed"
          /\ calls'[Len(calls')].panicked
          /\ event_state' = event_state
          /\ woken' = woken]_vars

\* A second set with another value panicked and the first value is kept.
C16_Witness ==
    /\ panic = "result already set"
    /\ Len(calls) >= 2
    /\ calls[Len(calls)].call = "set" /\ calls[Len(calls)].panicked
    /\ event_state.tag = "Set"
    /\ event_state.result # Some(calls[Len(calls)].arg)
    /\ \E i \in SuccessfulSets : event_state.result = Some(calls[i].arg)

(***************************************************************************)
(* C17.  A poll of a once-event whose value was consumed panics: it does   *)
(* not return (neither the value nor not-ready) and leaves the state       *)
(* Consumed; over all calls at most one poll yields a value.               *)
(***************************************************************************)
PolledAfterConsumed == "event polled after result was already consumed"

C17_PollAfterConsumedPanics ==
    /\ [][(PollStep /\ event_state.tag = "Consumed") =>
              /\ panic' = PolledAfterConsumed
              /\ calls'[Len(calls')].panicked
              /\ calls'[Len(calls')].returned = None
              /\ event_state' = EventState_Consumed]_vars
    /\ [](Cardinality(ReadyPolls) <= 1)

\* The receiver got the value and was polled once more.
C17_Witness ==
    /\ panic = PolledAfterConsumed
    /\ Cardinality(ReadyPolls) = 1
    /\ calls[Len(calls)].call = "poll" /\ calls[Len(calls)].panicked
    /\ \E i \in ReadyPolls : i < Len(calls)

(***************************************************************************)
(* C18.  Producer before consumer, in every flavor and for every value: if *)
(* set(v) was called before the first poll, the first poll returns v (it   *)
(* is never not-ready and does not panic) and leaves the event Consumed.   *)
(***************************************************************************)
FirstPoll(i) == i \in PollCalls /\ \A j \in PollCalls : i <= j

C18_SetThenPoll ==
    /\ event_flavor \in Flavors
    /\ \A i \in CallIndexes :
          (FirstPoll(i) /\ \E j \in SuccessfulSets : j < i) =>
              /\ ~calls[i].panicked
              /\ \E j \in SuccessfulSets : j < i /\ calls[i].returned = Some(calls[j].arg)
              /\ i = Len(calls) => event_state = EventState_Consumed

\* The embedded sender set 42 and the first poll returned 42.
C18_Witness ==
    /\ event_flavor = "embedded"
    /\ event_sender = "used"
    /\ Len(calls) = 2
    /\ calls[1].call = "set" /\ calls[1].arg = 42
    /\ calls[2].call = "poll" /\ calls[2].returned = Some(42)

(***************************************************************************)
(* C19.  Consumer before producer, in every flavor and for every value: a  *)
(* poll before any set returns not-ready; the set that follows succeeds    *)
(* and wakes the waker of the latest poll; the poll after it returns the   *)
(* value that was set.  Every one of these calls returns at once.          *)
(***************************************************************************)
C19_PollThenSet ==
    /\ event_flavor \in Flavors
    /\ \A i \in PollCalls :
          calls[i].before \in {"NotSet", "Awaiting"} =>
              calls[i].returned = None /\ ~calls[i].panicked
    /\ \A j \in SetCalls :
          calls[j].before = "Awaiting" =>
              /\ ~calls[j].panicked
              /\ j > 1 /\ calls[j - 1].call = "poll"
              /\ calls[j].wake = Some(calls[j - 1].arg)
              /\ woken[calls[j - 1].arg] = 1
    /\ \A i \in PollCalls :
          (i > 1 /\ calls[i - 1].call = "set" /\ calls[i - 1].before = "Awaiting") =>
              calls[i].returned = Some(calls[i - 1].arg)

\* Embedded flavor: poll was not ready, the sender's set woke the waker,
\* the next poll returned the value.
C19_Witness ==
    /\ event_flavor = "embedded"
    /\ event_sender = "used"
    /\ Len(calls) = 3
    /\ calls[1].call = "poll" /\ calls[1].returned = None
    /\ calls[2].call = "set" /\ calls[2].arg = 7 /\ calls[2].wake = Some(calls[1].arg)
    /\ calls[3].call = "poll" /\ calls[3].returned = Some(7)
    /\ woken = OnlyWoken(calls[1].arg)

(***************************************************************************)
(* C20.  When the event was polled with several wakers before it is set,   *)
(* the set wakes the waker of the most recent poll exactly once and no     *)
(* other; a set from NotSet wakes nobody; without a successful set nobody  *)
(* is ever woken; and later calls wake nobody.                             *)
(***************************************************************************)
C20_OnlyLatestWaker ==
    /\ SuccessfulSets = {} => woken = NoneWoken
    /\ \A j \in SuccessfulSets :
          IF \E i \in PollCalls : i < j
          THEN /\ calls[j - 1].call = "poll"
               /\ woken = OnlyWoken(calls[j - 1].arg)
          ELSE /\ calls[j].before = "NotSet"
               /\ woken = NoneWoken

\* Polled with waker 1, then with waker 2, then set: only waker 2 was woken.
C20_Witness ==
    /\ Len(calls) >= 3
    /\ calls[1].call = "poll" /\ calls[1].arg = 1
    /\ calls[2].call = "poll" /\ calls[2].arg = 2
    /\ calls[3].call = "set" /\ ~calls[3].panicked
    /\ woken = OnlyWoken(2)

(***************************************************************************)
(* C21.  Over every sequence of set and poll calls the receiver gets zero  *)
(* or one value, never more values than sets succeeded, and a value it     *)
(* gets is the value of a set that succeeded before that poll.             *)
(***************************************************************************)
C21_AtMostOneDelivery ==
    /\ Cardinality(ReadyPolls) <= 1
    /\ Cardinality(ReadyPolls) <= Cardinality(SuccessfulSets)
    /\ \A i \in ReadyPolls :
          \E j \in SuccessfulSets : j < i /\ calls[i].returned = Some(calls[j].arg)

\* The value 7 was set and received, and more calls followed.
C21_Witness ==
    /\ Cardinality(ReadyPolls) = 1
    /\ \E i \in ReadyPolls : calls[i].returned = Some(7) /\ i < Len(calls)
    /\ \E j \in SuccessfulSets : calls[j].arg = 7

(***************************************************************************)
(* C22.  Embedded flavor, as claimed: the count starts at 2 and never      *)
(* exceeds 2, the storage is not inert while an end is live, and once both *)
(* ends are gone - used or merely dropped - the count is 0 and the storage *)
(* is inert.                                                               *)
(***************************************************************************)
EndsLive == { e \in {event_sender, event_receiver} : e = "live" }

C22_BothEndsDecrement ==
    (event_flavor = "embedded" /\ panic = "none") =>
        /\ ref_count <= 2
        /\ (event_sender = "live" /\ event_receiver = "live") => ref_count = 2
        /\ EndsLive # {} => ~is_inert(ref_count)
        /\ EndsLive = {} => ref_count = 0 /\ is_inert(ref_count)

(***************************************************************************)
(* C22, as the code has it.  Embedded flavor: the count starts at 2 and    *)
(* never exceeds 2; the sender gives its reference back in set and only    *)
(* there, the receiver when it is dropped and only there.  So the count is *)
(* one for a sender that has not set plus one for a receiver not yet       *)
(* dropped, the storage is inert exactly when the sender has set and the   *)
(* receiver is dropped, and a sender dropped without a set keeps the       *)
(* storage from ever becoming inert.                                       *)
(***************************************************************************)
C22_RefCount ==
    (event_flavor = "embedded" /\ panic = "none") =>
        /\ ref_count <= 2
        /\ ref_count = (IF event_sender = "used" THEN 0 ELSE 1)
                       + (IF event_receiver = "live" THEN 1 ELSE 0)
        /\ EndsLive # {} => ~is_inert(ref_count)
        /\ is_inert(ref_count) <=>
              (event_sender = "used" /\ event_receiver = "dropped")

\* Both ends of an embedded event were dropped, the sender without a set:
\* one reference is left.
C22_Witness ==
    /\ event_flavor = "embedded"
    /\ panic = "none"
    /\ event_sender = "dropped"
    /\ event_receiver = "dropped"
    /\ ref_count = 1
    /\ ~is_inert(ref_count)

(***************************************************************************)
(* C23.  Embedded flavor, as claimed: in both orders, once a poll has      *)
(* returned the value the sender set, the storage is inert.                *)
(***************************************************************************)
Resolved ==
    /\ event_flavor = "embedded"
    /\ panic = "none"
    /\ event_sender = "used"
    /\ ReadyPolls # {}

C23_InertOnceResolved == Resolved => is_inert(ref_count)

(***************************************************************************)
(* C23, as the code has it.  Embedded flavor, in both orders: after the    *)
(* poll that returned the value the sender set, the storage still counts   *)
(* the receiver's reference and is not inert; it is inert once that        *)
(* receiver has been dropped.                                              *)
(***************************************************************************)
C23_InertAfterReceiverDropped ==
    Resolved =>
        /\ event_receiver = "live" => ref_count = 1 /\ ~is_inert(ref_count)
        /\ event_receiver = "dropped" => ref_count = 0 /\ is_inert(ref_count)

\* Poll before set: not ready, set, ready with the value, receiver dropped,
\* storage inert.
C23_Witness ==
    /\ Resolved
    /\ Len(calls) = 3
    /\ calls[1].call = "poll" /\ calls[1].returned = None
    /\ calls[2].call = "set"
    /\ calls[3].call = "poll" /\ calls[3].returned = Some(calls[2].arg)
    /\ event_receiver = "dropped"
    /\ is_inert(ref_count)

(***************************************************************************)
(* What the properties on lengths and offsets speak of.                    *)
(***************************************************************************)
\* Every result the awaiter of o has, or has waiting in its channel
ResultsOf(o) ==
    { observed[o][i] : i \in 1..Len(observed[o]) }
        \cup { chan[o].message[i] : i \in 1..Len(chan[o].message) }

\* min(len, 2^32 - 1)
ClampedLen(len) == IF USizeLe(len, U32_MAX) THEN len ELSE U32_MAX

\* high * 2^32 + low of the OVERLAPPED offset
HeaderOffset(overlapped) ==
    <<overlapped.OffsetHigh[1], overlapped.OffsetHigh[2],
      overlapped.Offset[1], overlapped.Offset[2]>>

\* The offset last requested for o; 0 (OVERLAPPED::default()) if none was
RequestedOffset(o) ==
    IF IsSome(requested_offset[o]) THEN Unwrap(requested_offset[o]) ELSE USize(0)

(***************************************************************************)
(* C24.  The block is constructed with the buffer's active length clamped  *)
(* to min(length, 2^32 - 1), lengths up to the limit unchanged; and every  *)
(* result delivered for the operation - by a completion or otherwise -     *)
(* carries an active length of at most 2^32 - 1, a completion's result     *)
(* exactly the byte count of its record.                                   *)
(***************************************************************************)
C24_ClampedLength ==
    /\ \A key \in OccupiedKeys :
          LET core == Unwrap(items[key])
          IN  IsSome(core.buffer) =>
                  /\ Unwrap(core.buffer).len = ClampedLen(Unwrap(core.buffer).supplied)
                  /\ USizeLe(Unwrap(core.buffer).len, U32_MAX)
    /\ \A o \in Ops : \A result \in ResultsOf(o) :
          /\ USizeLe(result.buffer.len, U32_MAX)
          /\ IsSome(completion[o]) =>
                result.buffer.len = U32AsUSize(Unwrap(completion[o]).bytes)

\* A buffer of more than 2^32 active bytes, completed with u32::MAX bytes.
C24_Witness ==
    \E o \in Ops :
        /\ pc[o] = "done"
        /\ IsSome(completion[o])
        /\ Unwrap(completion[o]).bytes = <<LimbMax, LimbMax>>
        /\ USizeGt(observed[o][1].buffer.supplied, U32_MAX)
        /\ observed[o][1].buffer.len = U32_MAX

(***************************************************************************)
(* C25.  After set_offset(o) the header's halves are o mod 2^32 (low) and  *)
(* o div 2^32 (high): high * 2^32 + low is the offset last requested, for  *)
(* every 64-bit offset, also when an earlier offset is overwritten.        *)
(***************************************************************************)
C25_OffsetHalves ==
    \A o \in Ops :
        (pc[o] = "handle" /\ IsSome(requested_offset[o])) =>
            LET overlapped == Unwrap(items[Unwrap(handle[o])]).overlapped
            IN  /\ HeaderOffset(overlapped) = Unwrap(requested_offset[o])
                /\ overlapped.Offset = USizeAsU32(Unwrap(requested_offset[o]))

\* usize::MAX was requested: both halves are u32::MAX.
C25_Witness ==
    \E o \in Ops :
        /\ pc[o] = "handle"
        /\ requested_offset[o] = Some(<<LimbMax, LimbMax, LimbMax, LimbMax>>)
        /\ Unwrap(items[Unwrap(handle[o])]).overlapped =
               [Offset |-> <<LimbMax, LimbMax>>, OffsetHigh |-> <<LimbMax, LimbMax>>]

(***************************************************************************)
(* C26.  The offset in a block's header changes only before submission:    *)
(* every block in the store, OS-owned ones included, carries the offset    *)
(* last requested through its handle; an offset is requested, and a header *)
(* changed, only while the handle exists and the closure was not invoked.  *)
(***************************************************************************)
C26_OffsetFrozen ==
    /\ [](\A key \in OccupiedKeys :
             HeaderOffset(Unwrap(items[key]).overlapped) = RequestedOffset(OpOfKey(key)))
    /\ [][\A o \in Ops :
              requested_offset'[o] # requested_offset[o] =>
                  /\ pc[o] = "handle" /\ pc'[o] = "handle"
                  /\ closure[o] = None /\ closure'[o] = None]_vars
    /\ [][\A key \in Keys :
              (/\ items[key] # None /\ items'[key] # None
               /\ Unwrap(items'[key]).overlapped # Unwrap(items[key]).overlapped) =>
                  /\ RuntimeHeld(key)
                  /\ closure'[OpOfKey(key)] = None]_vars

\* The OS holds a block whose header carries an offset above 2^32, and the
\* awaiter has been polled.
C26_Witness ==
    \E key \in osOwned :
        /\ chan[OpOfKey(key)].waker
        /\ USizeGt(RequestedOffset(OpOfKey(key)), U32_MAX)
        /\ HeaderOffset(Unwrap(items[key]).overlapped) = RequestedOffset(OpOfKey(key))

(***************************************************************************)
(* C27.  A byte count of zero is legal on both paths.  Sync: a closure     *)
(* that returns ok with 0 makes begin return Ok with active length 0 in    *)
(* the same poll, no assertion fails.  Async: a completion record with 0   *)
(* bytes and STATUS_SUCCESS delivers Ok with active length 0.  Either way  *)
(* the slot is released.                                                   *)
(***************************************************************************)
ZeroSync(o) == ClosureWas(o, "ok") /\ Unwrap(closure[o]).bytes = U32(0)

ZeroAsync(o) ==
    /\ IsSome(completion[o])
    /\ Unwrap(completion[o]) = [bytes |-> U32(0), status |-> STATUS_SUCCESS]

IsOkWithLen(result, o, len) ==
    result.kind = "Ok" /\ result.buffer.id = o /\ result.buffer.len = len

C27_ZeroBytes ==
    \A o \in Ops :
        /\ ZeroSync(o) =>
              /\ pc[o] = "done"
              /\ Len(observed[o]) = 1
              /\ IsOkWithLen(observed[o][1], o, USize(0))
              /\ CoreKeysOf(o) = {}
        /\ ZeroAsync(o) =>
              /\ pc[o] # "panicked"
              /\ CoreKeysOf(o) = {}
              /\ \A result \in ResultsOf(o) : IsOkWithLen(result, o, USize(0))
              /\ pc[o] \in {"awaiting", "done"} => ResultsAvailable(o) = 1

\* One operation completed with zero bytes inline, another through the
\* poller; both awaiters have their empty buffers.
C27_Witness ==
    \E o, p \in Ops :
        /\ ZeroSync(o) /\ pc[o] = "done"
        /\ ZeroAsync(p) /\ pc[p] = "done"
        /\ IsOkWithLen(observed[p][1], p, USize(0))
        /\ is_empty(items)

(***************************************************************************)
(* C28.  complete_operation sends the result of the operation it is called *)
(* for before it returns, so results are sent in the order of the poller's *)
(* calls; and it leaves every other operation alone: their cores (buffer,  *)
(* sender, key), slots, channels, OS ownership and results are unchanged.  *)
(***************************************************************************)
CompletedNow(o) == completion[o] = None /\ completion'[o] # None

C28_CompletionOrder ==
    [][\A o \in Ops :
          CompletedNow(o) =>
              /\ chan[o].sender = "live"
              /\ chan'[o].sender \in {"sent", "failed"}
              /\ chan'[o].sender = "sent" <=> IsSome(chan'[o].message)
              /\ \A p \in Ops \ {o} :
                    /\ chan'[p] = chan[p]
                    /\ completion'[p] = completion[p]
                    /\ observed'[p] = observed[p]
                    /\ pc'[p] = pc[p]
              /\ \A key \in Keys \ CoreKeysOf(o) :
                    /\ items'[key] = items[key]
                    /\ key \in osOwned' <=> key \in osOwned]_vars

\* Two operations were in flight; the later one's completion was delivered
\* and the earlier one is still with the OS, untouched.
C28_Witness ==
    \E o, p \in Ops :
        /\ o < p
        /\ IsSome(completion[p]) /\ IsSome(chan[p].message)
        /\ completion[o] = None /\ ClosureWas(o, "pending")
        /\ \E key \in osOwned : CoreKeysOf(o) = {key}
        /\ chan[o].sender = "live"

(***************************************************************************)
(* C29.  A block is released at most once, by exactly one party: the drop  *)
(* of a handle whose closure was never invoked, or the sync path, or the   *)
(* rejection path, or complete_operation.  After begin the handle is gone, *)
(* so its drop cannot release.  The key stored in a block is the key of    *)
(* its slot, release is never called for a vacant key, and a release       *)
(* removes no other block.                                                 *)
(***************************************************************************)
ReleasedBy(key) ==
    LET o == OpOfKey(key)
    IN  { path \in {"drop", "sync", "rejection", "completion"} :
            \/ /\ path = "drop"
               /\ pc[o] = "handle" /\ pc'[o] = "dropped" /\ closure'[o] = None
            \/ /\ path = "sync"
               /\ pc[o] = "handle" /\ closure'[o] # None
               /\ Unwrap(closure'[o]).kind = "ok"
            \/ /\ path = "rejection"
               /\ pc[o] = "handle" /\ closure'[o] # None
               /\ Unwrap(closure'[o]).kind = "rejected"
            \/ /\ path = "completion"
               /\ key \in osOwned /\ CompletedNow(o) }

C29_ReleasedOnce ==
    /\ [](/\ panic # "release: vacant key"
          /\ \A key \in OccupiedKeys : Unwrap(items[key]).key = key
          /\ \A o \in Ops :
                /\ Cardinality(CoreKeysOf(o)) <= 1
                /\ pc[o] \notin {"unborn", "handle"} => handle[o] = None)
    /\ [][\A key \in Keys :
              (items[key] # None /\ items'[key] = None) =>
                  /\ Cardinality(ReleasedBy(key)) = 1
                  /\ \A other \in Keys \ {key} : items'[other] = items[other]]_vars
    /\ [][\A o \in Ops :
              (pc[o] # "unborn" /\ CoreKeysOf(o) = {}) =>
                  \A key \in Keys :
                      items'[key] # None => Unwrap(items'[key]).result_tx # Some(o)]_vars

\* One block was released by a handle's drop, the other by the poller's
\* completion after its future had been dropped; the store is empty.
C29_Witness ==
    \E o, p \in Ops :
        /\ pc[o] = "dropped"
        /\ pc[p] = "abandoned" /\ IsSome(completion[p])
        /\ is_empty(items)
        /\ panic = "none"

(***************************************************************************)
(* C30.  For a handle about to begin: when the closure returns one of the  *)
(* two forms of the pending sentinel, begin releases nothing and delivers  *)
(* nothing - the core stays with its buffer and sender, the OS owns it -   *)
(* and every other error, near misses of the sentinel included, is a       *)
(* rejection returned with the buffer.  A pending operation's block then   *)
(* stays as it is until complete_operation is called for it.               *)
(***************************************************************************)
\* Errors that resemble the sentinel without being it
NearSentinels ==
    { WindowsError(ERROR_IO_PENDING),
      WinsockError(0, WSA_IO_PENDING),
      WinsockError(SOCKET_ERROR, 0),
      WindowsError(HResultFromWin32(ERROR_IO_PENDING) + 1) }

BeginKeepsBlock(o, e) ==
    LET key == Unwrap(handle[o])
        core == Unwrap(items[key])
        b == begin(World, key, ClosureErr(e), U32(0))
    IN  /\ b.submitted
        /\ b.returned = None
        /\ b.w.panic = "none"
        /\ b.w.items = [items EXCEPT ![key] =
                           Some([core EXCEPT !.result_rx = None, !.started = TRUE])]
        /\ b.w.chan = [chan EXCEPT ![o].waker = TRUE]

BeginRejects(o, e) ==
    LET key == Unwrap(handle[o])
        core == Unwrap(items[key])
        b == begin(World, key, ClosureErr(e), U32(0))
    IN  /\ ~b.submitted
        /\ b.returned = Some(ResultErr(e, Unwrap(core.buffer)))
        /\ b.w.items = [items EXCEPT ![key] = None]

C30_PendingKeepsBlock ==
    \A o \in Ops :
        /\ (pc[o] = "handle" /\ panic = "none") =>
              /\ \A e \in {PendingWindows, PendingWinsock} : BeginKeepsBlock(o, e)
              /\ \A e \in RejectionErrors \cup NearSentinels : BeginRejects(o, e)
        /\ (ClosureWas(o, "pending") /\ completion[o] = None) =>
              /\ pc[o] \in {"awaiting", "abandoned"}
              /\ ResultsAvailable(o) = 0
              /\ chan[o].sender = "live"
              /\ \E key \in osOwned :
                    /\ CoreKeysOf(o) = {key}
                    /\ IsSome(Unwrap(items[key]).buffer)
                    /\ Unwrap(Unwrap(items[key]).buffer).id = o
                    /\ Unwrap(Unwrap(items[key]).buffer).len =
                           Unwrap(Unwrap(items[key]).buffer).supplied
        /\ ClosureWas(o, "rejected") =>
              /\ CoreKeysOf(o) = {}
              /\ completion[o] = None
              /\ pc[o] = "done"

\* One operation is pending with the OS and was polled again, another was
\* rejected.
C30_Witness ==
    \E o, p \in Ops :
        /\ ClosureWas(o, "pending") /\ completion[o] = None /\ chan[o].waker
        /\ ClosureWas(p, "rejected") /\ pc[p] = "done"
        /\ \E key \in osOwned : CoreKeysOf(o) = {key}

(***************************************************************************)
(* C31.  begin suspends only for a closure that returned the pending       *)
(* sentinel and while no completion has been delivered: the first poll     *)
(* leaves it suspended only then, and a later poll that finds the result   *)
(* delivered resolves.  When the closure returned ok (and the byte count   *)
(* passed the assertion) or a rejection, the poll that invoked the closure *)
(* returns the result - sent and received through the channel within that  *)
(* poll, or returned directly with both channel ends dropped unused - and  *)
(* the slot is released by then.                                           *)
(***************************************************************************)
C31_SuspendsOnlyWhenPending ==
    /\ [](\A o \in Ops :
             /\ pc[o] = "awaiting" => ClosureWas(o, "pending")
             /\ ClosureWas(o, "ok") =>
                   /\ pc[o] \in {"done", "panicked"}
                   /\ pc[o] = "done" =>
                         /\ Len(observed[o]) = 1
                         /\ CoreKeysOf(o) = {}
                         /\ chan[o].sender = "sent"
                         /\ chan[o].receiver = "received"
             /\ ClosureWas(o, "rejected") =>
                   /\ pc[o] = "done"
                   /\ Len(observed[o]) = 1
                   /\ CoreKeysOf(o) = {}
                   /\ chan[o].sender = "dropped"
                   /\ chan[o].receiver = "dropped")
    /\ [][\A o \in Ops :
              /\ (pc[o] = "handle" /\ pc'[o] = "awaiting") =>
                    /\ ClosureWas(o, "pending")'
                    /\ completion'[o] = None
                    /\ chan'[o].message = None
                    /\ chan'[o].waker
              /\ (pc[o] = "awaiting" /\ IsSome(chan[o].message)
                    /\ chan'[o] # chan[o]) =>
                    \/ pc'[o] = "done" /\ observed'[o] = chan[o].message
                    \/ pc'[o] = "abandoned"]_vars

\* One begin returned its inline result in its first poll, one returned a
\* rejection, in a store where nothing is left.
C31_Witness ==
    \E o, p \in Ops :
        /\ ClosureWas(o, "ok") /\ pc[o] = "done"
        /\ chan[o].sender = "sent" /\ chan[o].receiver = "received"
        /\ ClosureWas(p, "rejected") /\ pc[p] = "done"
        /\ is_empty(items)

====
